---- MODULE Spec2Model ----
(***************************************************************************)
(* Model of the market-data gateway (exchange_api.py) and of the analyzers *)
(* (data_analysis.py) of crypto-data-bot.                                  *)
(*                                                                         *)
(* Numbers.  A Python float is carried as the integer number of hundredths *)
(* it denotes (float("0.02") is 2, float("1000") is 100000); a quotient    *)
(* of two floats is carried as the exact reduced fraction [num, den].      *)
(* The rounding of binary floating point is not carried: (11/20)*100 is    *)
(* 55 here and 55.00000000000001 in the program.                           *)
(* Time.  datetime.now() is the variable now, in whole seconds; a trade    *)
(* timestamp is in epoch milliseconds, as on the wire.                     *)
(***************************************************************************)
EXTENDS Integers, Sequences, FiniteSets, TLC

VARIABLES
    now,        \* datetime.now(), seconds
    CACHE,      \* exchange_api.CACHE: cache_key -> [timestamp, data]
    fetched,    \* history: cache_key -> the value the last storing call returned
    calls,      \* the gateway calls of the callers: caller -> call record
    agg,        \* the get_aggregated_price call and its three get_price tasks
    comp,       \* the comprehensive_analysis call and its four sub-tasks
    given,      \* what the gateway handed to an analyzer: trades, price, order book
    report      \* what the analyzer returned

vars == <<now, CACHE, fetched, calls, agg, comp, given, report>>

----------------------------------------------------------------------------
(* exchange_api.py: configuration *)

\* EXCHANGES.keys(), in the dict's insertion order
EXCHANGE_KEYS == <<"binance", "okx", "bybit">>

EXCHANGES ==
    [e \in {"binance", "okx", "bybit"} |->
        CASE e = "binance" -> [base_url |-> "https://api.binance.com",
                               price_endpoint |-> "/api/v3/ticker/24hr",
                               depth_endpoint |-> "/api/v3/depth",
                               trades_endpoint |-> "/api/v3/trades"]
          [] e = "okx"     -> [base_url |-> "https://www.okx.com",
                               price_endpoint |-> "/api/v5/market/ticker",
                               depth_endpoint |-> "/api/v5/market/books",
                               trades_endpoint |-> "/api/v5/market/trades"]
          [] e = "bybit"   -> [base_url |-> "https://api.bybit.com",
                               price_endpoint |-> "/v5/market/tickers",
                               depth_endpoint |-> "/v5/market/orderbook",
                               trades_endpoint |-> "/v5/market/recent-trade"]]

CACHE_EXPIRY == 60

----------------------------------------------------------------------------
(* Python values *)

None == [none |-> TRUE]
Some(v) == [none |-> FALSE, val |-> v]

\* float(s) for the decimal strings of the payloads, in hundredths
float(s) ==
    CASE s = "0"      -> 0
      [] s = "1"      -> 100
      [] s = "2"      -> 200
      [] s = "3"      -> 300
      [] s = "8"      -> 800
      [] s = "9"      -> 900
      [] s = "11"     -> 1100
      [] s = "17"     -> 1700
      [] s = "23"     -> 2300
      [] s = "40"     -> 4000
      [] s = "50"     -> 5000
      [] s = "80"     -> 8000
      [] s = "100"    -> 10000
      [] s = "150"    -> 15000
      [] s = "200"    -> 20000
      [] s = "500"    -> 50000
      [] s = "0.02"   -> 2
      [] s = "-0.01"  -> -1
      [] s = "2.00"   -> 200
      [] s = "-1.00"  -> -100
      [] s = "900"    -> 90000
      [] s = "990"    -> 99000
      [] s = "1000"   -> 100000
      [] s = "1010"   -> 101000
      [] s = "1020"   -> 102000
      [] s = "1100"   -> 110000
      [] s = "5000"   -> 500000

\* an int where a float is expected
Num(n) == n * 100

\* x * y of two floats
FMul(x, y) == (x \div 100) * y + ((x % 100) * y) \div 100

\* the exact quotient x / y (y # 0), reduced, with a positive denominator
RECURSIVE Gcd(_, _)
Gcd(a, b) == IF b = 0 THEN a ELSE Gcd(b, a % b)

Abs(x) == IF x < 0 THEN -x ELSE x

Frac(x, y) ==
    LET g == Gcd(Abs(x), Abs(y))
        sgn == IF y < 0 THEN -1 ELSE 1
    IN  [num |-> sgn * (x \div g), den |-> sgn * (y \div g)]

\* x / y of two floats, a float: the exact number of hundredths
Quot(x, y) == Frac(x * 100, y)

\* q * n, q - r and the comparisons of a quotient with an int
QTimes(q, n) == Frac(q.num * n, q.den)
QMinus(q, r) == Frac(q.num * r.den - r.num * q.den, q.den * r.den)
QGreater(q, n) == q.num > Num(n) * q.den
QLess(q, n) == q.num < Num(n) * q.den

----------------------------------------------------------------------------
(* The network: what session.get can deliver for a request *)

\* the HTTP exchanges that do not yield a 200: a transport error, a 5xx
HttpFailures == {[raised |-> TRUE], [raised |-> FALSE, status |-> 500, json |-> <<>>]}

Http200(body) == [raised |-> FALSE, status |-> 200, json |-> body]

\* ticker bodies: <<last price, 24h change as a percentage, the same as a fraction>>
TickerCases == {<<"1000", "2.00", "0.02">>, <<"1010", "-1.00", "-0.01">>}

TickerBody(exchange, c) ==
    CASE exchange = "binance" ->
            [lastPrice |-> c[1], priceChangePercent |-> c[2], volume |-> "5000",
             highPrice |-> "1100", lowPrice |-> "900"]
      [] exchange = "okx" ->
            [data |-> <<[last |-> c[1], change24h |-> c[3], vol24h |-> "5000",
                         high24h |-> "1100", low24h |-> "900"]>>]
      [] exchange = "bybit" ->
            [result |-> [list |-> <<[lastPrice |-> c[1], price24hPcnt |-> c[3],
                                     volume24h |-> "5000", highPrice24h |-> "1100",
                                     lowPrice24h |-> "900"]>>]]

\* depth bodies: the quantity strings of the bid levels and of the ask levels
DepthBody(exchange, bq, aq) ==
    LET bids == [i \in 1..Len(bq) |-> <<(IF i = 1 THEN "1000" ELSE "900"), bq[i]>>]
        asks == [i \in 1..Len(aq) |-> <<(IF i = 1 THEN "1010" ELSE "1100"), aq[i]>>]
        four(l) == [i \in 1..Len(l) |-> l[i] \o <<"0", "1">>]
    IN  CASE exchange = "binance" -> [bids |-> bids, asks |-> asks, lastUpdateId |-> 7]
          [] exchange = "okx"     -> [data |-> <<[bids |-> four(bids), asks |-> four(asks), ts |-> 7]>>]
          [] exchange = "bybit"   -> [result |-> [b |-> bids, a |-> asks, ts |-> 7]]

\* trade bodies: each trade of price 1000 is <<quantity string, raw side flag, age in
\* seconds>>; the flag is isBuyerMaker (Binance), side = "buy" (OKX), S = "Buy" (Bybit)
TradesBody(exchange, l, t) ==
    LET ms(i) == (t - l[i][3]) * 1000
    IN  CASE exchange = "binance" ->
                [i \in 1..Len(l) |-> [id |-> i, price |-> "1000", qty |-> l[i][1],
                                      isBuyerMaker |-> l[i][2], time |-> ms(i)]]
          [] exchange = "okx" ->
                [data |-> [i \in 1..Len(l) |->
                    [tradeId |-> i, px |-> "1000", sz |-> l[i][1],
                     side |-> (IF l[i][2] THEN "buy" ELSE "sell"), ts |-> ms(i)]]]
          [] exchange = "bybit" ->
                [result |-> [list |-> [i \in 1..Len(l) |->
                    [i |-> i, p |-> "1000", v |-> l[i][1],
                     S |-> (IF l[i][2] THEN "Buy" ELSE "Sell"), T |-> ms(i)]]]]

----------------------------------------------------------------------------
(* exchange_api.py: the gateway *)

\* _make_request: the JSON body of a 200, None otherwise
HttpJson(resp) ==
    IF resp.raised THEN None
    ELSE IF resp.status = 200 THEN Some(resp.json) ELSE None

\* "not response": None, an empty list, an empty dict
Falsy(response) == response = None \/ response.val = <<>>

price_key(symbol, exchange) == "price_" \o exchange \o "_" \o symbol
orderbook_key(symbol, limit, exchange) ==
    "orderbook_" \o exchange \o "_" \o symbol \o "_" \o ToString(limit)
trades_key(symbol, limit, exchange) ==
    "trades_" \o exchange \o "_" \o symbol \o "_" \o ToString(limit)

cache_key(kind, symbol, limit, exchange) ==
    CASE kind = "price"     -> price_key(symbol, exchange)
      [] kind = "orderbook" -> orderbook_key(symbol, limit, exchange)
      [] kind = "trades"    -> trades_key(symbol, limit, exchange)

\* CacheFresh with an entry still served at the age of exactly CACHE_EXPIRY
CacheFresh_inclusive(cache, key, t) ==
    key \in DOMAIN cache /\ t - cache[key].timestamp <= CACHE_EXPIRY

\* the cache test that opens get_price, get_order_book and get_recent_trades
CacheFresh(cache, key, t) ==
    key \in DOMAIN cache /\ t - cache[key].timestamp < CACHE_EXPIRY

\* CachePut that keeps the entry a key already has: the first writer wins
CachePut_keepFirst(cache, key, t, data) ==
    IF key \in DOMAIN cache THEN cache
    ELSE [k \in DOMAIN cache \cup {key} |->
            IF k = key THEN [timestamp |-> t, data |-> data] ELSE cache[k]]

\* CACHE[cache_key] = {"timestamp": datetime.now(), "data": data}
CachePut(cache, key, t, data) ==
    [k \in DOMAIN cache \cup {key} |->
        IF k = key THEN [timestamp |-> t, data |-> data] ELSE cache[k]]

\* the if/elif chain that formats the symbol, and EXCHANGES.get(exchange)
Supported(exchange) ==
    /\ exchange \in {"binance", "okx", "bybit"}
    /\ exchange \in DOMAIN EXCHANGES

Endpoint(kind) ==
    CASE kind = "price"     -> "price_endpoint"
      [] kind = "orderbook" -> "depth_endpoint"
      [] kind = "trades"    -> "trades_endpoint"

RequestUrl(kind, exchange) ==
    EXCHANGES[exchange].base_url \o EXCHANGES[exchange][Endpoint(kind)]

\* ParsePrice that leaves OKX's change24h a fraction of one
ParsePrice_unscaled(symbol, exchange, response) ==
    CASE exchange = "binance" ->
            [symbol |-> symbol,
             price |-> float(response.lastPrice),
             change_24h |-> float(response.priceChangePercent),
             volume_24h |-> float(response.volume),
             high_24h |-> float(response.highPrice),
             low_24h |-> float(response.lowPrice)]
      [] exchange = "okx" ->
            LET data == response.data[1]
            IN  [symbol |-> symbol,
                 price |-> float(data.last),
                 change_24h |-> float(data.change24h),
                 volume_24h |-> float(data.vol24h),
                 high_24h |-> float(data.high24h),
                 low_24h |-> float(data.low24h)]
      [] exchange = "bybit" ->
            LET data == response.result.list[1]
            IN  [symbol |-> symbol,
                 price |-> float(data.lastPrice),
                 change_24h |-> float(data.price24hPcnt) * 100,
                 volume_24h |-> float(data.volume24h),
                 high_24h |-> float(data.highPrice24h),
                 low_24h |-> float(data.lowPrice24h)]

\* get_price, lines 83-112
ParsePrice(symbol, exchange, response) ==
    CASE exchange = "binance" ->
            [symbol |-> symbol,
             price |-> float(response.lastPrice),
             change_24h |-> float(response.priceChangePercent),
             volume_24h |-> float(response.volume),
             high_24h |-> float(response.highPrice),
             low_24h |-> float(response.lowPrice)]
      [] exchange = "okx" ->
            LET data == response.data[1]
            IN  [symbol |-> symbol,
                 price |-> float(data.last),
                 change_24h |-> float(data.change24h) * 100,
                 volume_24h |-> float(data.vol24h),
                 high_24h |-> float(data.high24h),
                 low_24h |-> float(data.low24h)]
      [] exchange = "bybit" ->
            LET data == response.result.list[1]
            IN  [symbol |-> symbol,
                 price |-> float(data.lastPrice),
                 change_24h |-> float(data.price24hPcnt) * 100,
                 volume_24h |-> float(data.volume24h),
                 high_24h |-> float(data.highPrice24h),
                 low_24h |-> float(data.lowPrice24h)]

\* get_order_book, lines 153-176
Levels(raw) == [i \in 1..Len(raw) |-> <<float(raw[i][1]), float(raw[i][2])>>]

ParseOrderBook(symbol, exchange, response) ==
    CASE exchange = "binance" ->
            [symbol |-> symbol, bids |-> Levels(response.bids),
             asks |-> Levels(response.asks), timestamp |-> response.lastUpdateId]
      [] exchange = "okx" ->
            LET data == response.data[1]
            IN  [symbol |-> symbol, bids |-> Levels(data.bids),
                 asks |-> Levels(data.asks), timestamp |-> data.ts]
      [] exchange = "bybit" ->
            LET data == response.result
            IN  [symbol |-> symbol, bids |-> Levels(data.b),
                 asks |-> Levels(data.a), timestamp |-> data.ts]

\* get_recent_trades, lines 217-248
ParseTrades(exchange, response) ==
    CASE exchange = "binance" ->
            [i \in 1..Len(response) |->
                LET trade == response[i]
                IN  [id |-> trade.id,
                     price |-> float(trade.price),
                     amount |-> float(trade.qty),
                     value |-> FMul(float(trade.price), float(trade.qty)),
                     side |-> IF trade.isBuyerMaker THEN "buy" ELSE "sell",
                     timestamp |-> trade.time]]
      [] exchange = "okx" ->
            [i \in 1..Len(response.data) |->
                LET trade == response.data[i]
                IN  [id |-> trade.tradeId,
                     price |-> float(trade.px),
                     amount |-> float(trade.sz),
                     value |-> FMul(float(trade.px), float(trade.sz)),
                     side |-> IF trade.side = "buy" THEN "sell" ELSE "buy",
                     timestamp |-> trade.ts]]
      [] exchange = "bybit" ->
            [i \in 1..Len(response.result.list) |->
                LET trade == response.result.list[i]
                IN  [id |-> trade.i,
                     price |-> float(trade.p),
                     amount |-> float(trade.v),
                     value |-> FMul(float(trade.p), float(trade.v)),
                     side |-> IF trade.S = "Buy" THEN "buy" ELSE "sell",
                     timestamp |-> trade.T]]

Parse(kind, symbol, exchange, response) ==
    CASE kind = "price"     -> ParsePrice(symbol, exchange, response)
      [] kind = "orderbook" -> ParseOrderBook(symbol, exchange, response)
      [] kind = "trades"    -> ParseTrades(exchange, response)

\* GatewayBegin that hands back None for an exchange it does not know
GatewayBegin_silent(kind, symbol, limit, exchange, cache, t) ==
    LET key == cache_key(kind, symbol, limit, exchange)
    IN  IF CacheFresh(cache, key, t)
        THEN [tag |-> "return", value |-> cache[key].data]
        ELSE IF ~Supported(exchange)
        THEN [tag |-> "return", value |-> None]
        ELSE [tag |-> "await", url |-> RequestUrl(kind, exchange)]

\* get_price / get_order_book / get_recent_trades up to their first suspension: the
\* cached data, ValueError, or the request sent
GatewayBegin(kind, symbol, limit, exchange, cache, t) ==
    LET key == cache_key(kind, symbol, limit, exchange)
    IN  IF CacheFresh(cache, key, t)
        THEN [tag |-> "return", value |-> cache[key].data]
        ELSE IF ~Supported(exchange)
        THEN [tag |-> "raise", exc |-> "ValueError"]
        ELSE [tag |-> "await", url |-> RequestUrl(kind, exchange)]

\* GatewayEnd that drops the entry of the key when the request failed
GatewayEnd_evict(kind, symbol, limit, exchange, resp, cache, t) ==
    LET key == cache_key(kind, symbol, limit, exchange)
        response == HttpJson(resp)
    IN  IF Falsy(response)
        THEN [tag |-> "raise", exc |-> "Exception",
              cache |-> [k \in DOMAIN cache \ {key} |-> cache[k]]]
        ELSE LET data == Parse(kind, symbol, exchange, response.val)
             IN  [tag |-> "return", value |-> data,
                  cache |-> CachePut(cache, key, t, data)]

\* the same functions from the response on: Exception, or the parsed data, stored
\* under the key with the time of the store, and returned
GatewayEnd(kind, symbol, limit, exchange, resp, cache, t) ==
    LET key == cache_key(kind, symbol, limit, exchange)
        response == HttpJson(resp)
    IN  IF Falsy(response)
        THEN [tag |-> "raise", exc |-> "Exception", cache |-> cache]
        ELSE LET data == Parse(kind, symbol, exchange, response.val)
             IN  [tag |-> "return", value |-> data,
                  cache |-> CachePut(cache, key, t, data)]

\* history of the values the storing calls returned, after a call ended as e
Returned(hist, key, e) ==
    IF e.tag = "return"
    THEN [k \in DOMAIN hist \cup {key} |-> IF k = key THEN e.value ELSE hist[k]]
    ELSE hist

----------------------------------------------------------------------------
(* data_analysis.py: the analyzers, from the data the gateway handed them.  The     *)
(* labels are the source's, in English: "strong bullish" is the source's            *)
(* dominant_direction / market_prediction of both flows positive, and so on.        *)

LARGE_ORDER_THRESHOLD == 100000

\* time_periods: the windows and their lengths in seconds
Periods == <<"15m", "1h", "4h", "24h">>
PeriodNames == {Periods[i] : i \in 1..Len(Periods)}

PeriodSeconds(period) ==
    CASE period = "15m" -> 15 * 60
      [] period = "1h"  -> 3600
      [] period = "4h"  -> 4 * 3600
      [] period = "24h" -> 24 * 3600

\* InPeriod with a window that excludes the trade made at its very start
InPeriod_strict(trade, period, t) ==
    trade.timestamp > (t - PeriodSeconds(period)) * 1000

\* trade_time >= period_start, with trade_time = fromtimestamp(timestamp / 1000) and
\* period_start = now - timedelta(...)
InPeriod(trade, period, t) ==
    trade.timestamp >= (t - PeriodSeconds(period)) * 1000

IsLargeOrder(trade) == trade.value >= Num(LARGE_ORDER_THRESHOLD)

Categories == {"institutional", "retail"}

EmptyFlows ==
    [category \in Categories |->
        [period \in PeriodNames |-> [inflow |-> 0, outflow |-> 0, net_flow |-> 0]]]

\* AddTrade that books a trade in the shortest window it falls in only
AddTrade_firstWindow(results, trade, t) ==
    LET category == IF IsLargeOrder(trade) THEN "institutional" ELSE "retail"
        inside == {i \in 1..Len(Periods) : InPeriod(trade, Periods[i], t)}
        first == IF inside = {} THEN 0 ELSE CHOOSE i \in inside : \A j \in inside : i <= j
    IN  [c \in Categories |->
            [period \in PeriodNames |->
                IF c = category /\ first # 0 /\ period = Periods[first]
                THEN IF trade.side = "buy"
                     THEN [results[c][period] EXCEPT !.inflow = @ + trade.value]
                     ELSE [results[c][period] EXCEPT !.outflow = @ + trade.value]
                ELSE results[c][period]]]

\* one turn of the loop over the trades, lines 42-57
AddTrade(results, trade, t) ==
    LET category == IF IsLargeOrder(trade) THEN "institutional" ELSE "retail"
    IN  [c \in Categories |->
            [period \in PeriodNames |->
                IF c = category /\ InPeriod(trade, period, t)
                THEN IF trade.side = "buy"
                     THEN [results[c][period] EXCEPT !.inflow = @ + trade.value]
                     ELSE [results[c][period] EXCEPT !.outflow = @ + trade.value]
                ELSE results[c][period]]]

RECURSIVE AddTrades(_, _, _)
AddTrades(results, trades, t) ==
    IF trades = <<>> THEN results
    ELSE AddTrades(AddTrade(results, Head(trades), t), Tail(trades), t)

\* NetFlows that leaves net_flow as it was initialised
NetFlows_unset(results) == results

\* the loop that sets net_flow, lines 60-64
NetFlows(results) ==
    [c \in Categories |->
        [period \in PeriodNames |->
            [results[c][period] EXCEPT !.net_flow =
                results[c][period].inflow - results[c][period].outflow]]]

\* DominantDirection read from the 1h window
DominantDirection_1h(flows) ==
    LET inst_flow == flows["institutional"]["1h"].net_flow
        retail_flow == flows["retail"]["1h"].net_flow
    IN  CASE inst_flow > 0 /\ retail_flow > 0 -> "strong bullish"
          [] inst_flow > 0 /\ retail_flow < 0 -> "institutional bullish, retail bearish"
          [] inst_flow < 0 /\ retail_flow > 0 -> "institutional bearish, retail bullish"
          [] inst_flow < 0 /\ retail_flow < 0 -> "strong bearish"
          [] OTHER -> "neutral"

\* lines 66-79
DominantDirection(flows) ==
    LET inst_24h_flow == flows["institutional"]["24h"].net_flow
        retail_24h_flow == flows["retail"]["24h"].net_flow
    IN  CASE inst_24h_flow > 0 /\ retail_24h_flow > 0 -> "strong bullish"
          [] inst_24h_flow > 0 /\ retail_24h_flow < 0 -> "institutional bullish, retail bearish"
          [] inst_24h_flow < 0 /\ retail_24h_flow > 0 -> "institutional bearish, retail bullish"
          [] inst_24h_flow < 0 /\ retail_24h_flow < 0 -> "strong bearish"
          [] OTHER -> "neutral"

\* analyze_fund_flow from line 21 on: the FlowReport of the trades and the quote
FundFlow(symbol, trades, price_data, t) ==
    LET flows == NetFlows(AddTrades(EmptyFlows, trades, t))
    IN  [symbol |-> symbol,
         current_price |-> price_data.price,
         institutional |-> flows["institutional"],
         retail |-> flows["retail"],
         timestamp |-> t,
         dominant_direction |-> DominantDirection(flows)]

RECURSIVE SumValues(_)
SumValues(trades) ==
    IF trades = <<>> THEN 0 ELSE Head(trades).value + SumValues(Tail(trades))

\* LargeTradePercentage without the test for an empty trade list: what the division
\* by zero leaves is no number
LargeTradePercentage_unguarded(large, total_trades) ==
    IF total_trades > 0
    THEN QTimes(Quot(Num(large), Num(total_trades)), 100)
    ELSE [num |-> Num(large), den |-> 0]

\* LargeTradePercentage as the share of the large trades in the large trades
LargeTradePercentage_ofLarge(large, total_trades) ==
    IF large > 0 THEN QTimes(Quot(Num(large), Num(large)), 100) ELSE Frac(Num(0), 1)

\* (len(large_trades) / total_trades) * 100 if total_trades > 0 else 0
LargeTradePercentage(large, total_trades) ==
    IF total_trades > 0
    THEN QTimes(Quot(Num(large), Num(total_trades)), 100)
    ELSE Frac(Num(0), 1)

\* WhaleActivity that takes a trade for large above the threshold only, so that a trade
\* of exactly the threshold is large for the flows and not for the whales
WhaleActivity_above(symbol, trades, t) ==
    LET large_trades == SelectSeq(trades, LAMBDA x : x.value > Num(LARGE_ORDER_THRESHOLD))
        buy_trades == SelectSeq(large_trades, LAMBDA x : x.side = "buy")
        sell_trades == SelectSeq(large_trades, LAMBDA x : x.side = "sell")
        buy_value == SumValues(buy_trades)
        sell_value == SumValues(sell_trades)
    IN  [symbol |-> symbol,
         buy_count |-> Len(buy_trades),
         sell_count |-> Len(sell_trades),
         buy_value |-> buy_value,
         sell_value |-> sell_value,
         net_value |-> buy_value - sell_value,
         large_trade_percentage |-> LargeTradePercentage(Len(large_trades), Len(trades)),
         timestamp |-> t]

\* analyze_whale_activity from line 96 on: the WhaleReport of the trades
WhaleActivity(symbol, trades, t) ==
    LET large_trades == SelectSeq(trades, IsLargeOrder)
        buy_trades == SelectSeq(large_trades, LAMBDA x : x.side = "buy")
        sell_trades == SelectSeq(large_trades, LAMBDA x : x.side = "sell")
        buy_value == SumValues(buy_trades)
        sell_value == SumValues(sell_trades)
    IN  [symbol |-> symbol,
         buy_count |-> Len(buy_trades),
         sell_count |-> Len(sell_trades),
         buy_value |-> buy_value,
         sell_value |-> sell_value,
         net_value |-> buy_value - sell_value,
         large_trade_percentage |-> LargeTradePercentage(Len(large_trades), Len(trades)),
         timestamp |-> t]

RECURSIVE SumQty(_)
SumQty(levels) == IF levels = <<>> THEN 0 ELSE Head(levels)[2] + SumQty(Tail(levels))

\* Pressure with the thresholds themselves counted as pressure
Pressure_inclusive(imbalance) ==
    IF ~QLess(imbalance, 20) THEN "strong buy pressure"
    ELSE IF ~QLess(imbalance, 10) THEN "buy pressure"
    ELSE IF ~QGreater(imbalance, -20) THEN "strong sell pressure"
    ELSE IF ~QGreater(imbalance, -10) THEN "sell pressure"
    ELSE "balanced"

\* lines 148-158
Pressure(imbalance) ==
    IF QGreater(imbalance, 20) THEN "strong buy pressure"
    ELSE IF QGreater(imbalance, 10) THEN "buy pressure"
    ELSE IF QLess(imbalance, -20) THEN "strong sell pressure"
    ELSE IF QLess(imbalance, -10) THEN "sell pressure"
    ELSE "balanced"

\* OrderBookImbalance with percentages of 0, not 50, for a book that holds no volume
OrderBookImbalance_zeroDefault(symbol, order_book, t) ==
    LET bid_volume == SumQty(order_book.bids)
        ask_volume == SumQty(order_book.asks)
        total_volume == bid_volume + ask_volume
        bid_percentage == IF total_volume > 0
                          THEN QTimes(Quot(bid_volume, total_volume), 100)
                          ELSE Frac(0, 1)
        ask_percentage == IF total_volume > 0
                          THEN QTimes(Quot(ask_volume, total_volume), 100)
                          ELSE Frac(0, 1)
        imbalance == QMinus(bid_percentage, ask_percentage)
    IN  [symbol |-> symbol,
         bid_volume |-> bid_volume,
         ask_volume |-> ask_volume,
         bid_percentage |-> bid_percentage,
         ask_percentage |-> ask_percentage,
         imbalance |-> imbalance,
         pressure |-> Pressure(imbalance),
         timestamp |-> t]

\* analyze_order_book_imbalance from line 135 on: the ImbalanceReport of the book
OrderBookImbalance(symbol, order_book, t) ==
    LET bid_volume == SumQty(order_book.bids)
        ask_volume == SumQty(order_book.asks)
        total_volume == bid_volume + ask_volume
        bid_percentage == IF total_volume > 0
                          THEN QTimes(Quot(bid_volume, total_volume), 100)
                          ELSE Frac(Num(50), 1)
        ask_percentage == IF total_volume > 0
                          THEN QTimes(Quot(ask_volume, total_volume), 100)
                          ELSE Frac(Num(50), 1)
        imbalance == QMinus(bid_percentage, ask_percentage)
    IN  [symbol |-> symbol,
         bid_volume |-> bid_volume,
         ask_volume |-> ask_volume,
         bid_percentage |-> bid_percentage,
         ask_percentage |-> ask_percentage,
         imbalance |-> imbalance,
         pressure |-> Pressure(imbalance),
         timestamp |-> t]

\* Signals with the retail flow counted like the institutional one, not against it
Signals_retailDirect(inst_flow, retail_flow, whale_net, book_imbalance) ==
    [bullish_signals |->
        (IF inst_flow > 0 THEN 2 ELSE 0) + (IF retail_flow > 0 THEN 1 ELSE 0)
        + (IF whale_net > 0 THEN 2 ELSE 0) + (IF QGreater(book_imbalance, 10) THEN 1 ELSE 0),
     bearish_signals |->
        (IF inst_flow < 0 THEN 2 ELSE 0) + (IF retail_flow < 0 THEN 1 ELSE 0)
        + (IF whale_net < 0 THEN 2 ELSE 0) + (IF QLess(book_imbalance, -10) THEN 1 ELSE 0)]

\* the signal scores, lines 194-212
Signals(inst_flow, retail_flow, whale_net, book_imbalance) ==
    [bullish_signals |->
        (IF inst_flow > 0 THEN 2 ELSE 0) + (IF retail_flow < 0 THEN 1 ELSE 0)
        + (IF whale_net > 0 THEN 2 ELSE 0) + (IF QGreater(book_imbalance, 10) THEN 1 ELSE 0),
     bearish_signals |->
        (IF ~(inst_flow > 0) /\ inst_flow < 0 THEN 2 ELSE 0)
        + (IF ~(retail_flow < 0) /\ retail_flow > 0 THEN 1 ELSE 0)
        + (IF ~(whale_net > 0) /\ whale_net < 0 THEN 2 ELSE 0)
        + (IF ~QGreater(book_imbalance, 10) /\ QLess(book_imbalance, -10) THEN 1 ELSE 0)]

\* MarketPrediction with the strong labels from a difference of more than 3
MarketPrediction_above3(bullish_signals, bearish_signals) ==
    IF bullish_signals - bearish_signals > 3 THEN "strong bullish"
    ELSE IF bullish_signals - bearish_signals >= 1 THEN "bullish"
    ELSE IF bearish_signals - bullish_signals > 3 THEN "strong bearish"
    ELSE IF bearish_signals - bullish_signals >= 1 THEN "bearish"
    ELSE "neutral"

\* lines 214-224
MarketPrediction(bullish_signals, bearish_signals) ==
    IF bullish_signals - bearish_signals >= 3 THEN "strong bullish"
    ELSE IF bullish_signals - bearish_signals >= 1 THEN "bullish"
    ELSE IF bearish_signals - bullish_signals >= 3 THEN "strong bearish"
    ELSE IF bearish_signals - bullish_signals >= 1 THEN "bearish"
    ELSE "neutral"

\* comprehensive_analysis from the gather's four results on, lines 188-237
Composite(symbol, fund_flow, whale_activity, order_book_imbalance, price_data, t) ==
    LET inst_flow == fund_flow.institutional["24h"].net_flow
        retail_flow == fund_flow.retail["24h"].net_flow
        whale_net == whale_activity.net_value
        book_imbalance == order_book_imbalance.imbalance
        sig == Signals(inst_flow, retail_flow, whale_net, book_imbalance)
    IN  [symbol |-> symbol,
         price |-> price_data.price,
         change_24h |-> price_data.change_24h,
         fund_flow |-> fund_flow,
         whale_activity |-> whale_activity,
         order_book_imbalance |-> order_book_imbalance,
         market_prediction |-> MarketPrediction(sig.bullish_signals, sig.bearish_signals),
         bullish_signals |-> sig.bullish_signals,
         bearish_signals |-> sig.bearish_signals,
         timestamp |-> t]

----------------------------------------------------------------------------
(* Bounds and input domains *)

MaxTicks == 2

\* the clock advances in steps of half the cache lifetime, from two days after the epoch
TickLen == CACHE_EXPIRY \div 2
StartTime == 2 * 24 * 3600

Symbols == {"BTC"}
Unsupported == "kraken"
ExchangeIds == {"binance", "okx", "bybit", Unsupported}
Kinds == {"price", "orderbook", "trades"}

\* the limit argument by kind (get_price has none): the defaults of the signatures and
\* the 1000 of the analyzers
Limits(kind) ==
    CASE kind = "price"     -> {0}
      [] kind = "orderbook" -> {20}
      [] kind = "trades"    -> {100, 1000}

\* order books on the wire: bid quantities, ask quantities
DepthCases == {<<<<>>, <<>>>>, <<<<"3">>, <<"1">>>>, <<<<"1">>, <<"2", "1">>>>}

\* trade lists on the wire
TradeCases == {<<>>, <<<<"50", FALSE, 600>>, <<"150", TRUE, 1200>>>>}

Bodies(kind, exchange, t) ==
    CASE kind = "price"     -> {TickerBody(exchange, c) : c \in TickerCases}
      [] kind = "orderbook" -> {DepthBody(exchange, c[1], c[2]) : c \in DepthCases}
      [] kind = "trades"    -> {TradesBody(exchange, l, t) : l \in TradeCases}

Responses(kind, exchange, t) ==
    HttpFailures \cup {Http200(b) : b \in Bodies(kind, exchange, t)}

----------------------------------------------------------------------------
(* The gateway called by concurrent callers *)

Callers == {"c1", "c2"}

\* the requests a caller can make
Requests ==
    UNION {[kind : {kind}, symbol : Symbols, limit : Limits(kind), exchange : ExchangeIds] :
             kind \in Kinds}

\* a caller that has not called yet, and the request it will make
IdleCall(q) ==
    [st |-> "idle", kind |-> q.kind, symbol |-> q.symbol, limit |-> q.limit,
     exchange |-> q.exchange, net |-> 0, value |-> None, exc |-> "",
     startNow |-> 0, seen |-> None, resp |-> None]

CallKey(r) == cache_key(r.kind, r.symbol, r.limit, r.exchange)

\* a caller starts get_price / get_order_book / get_recent_trades; the record keeps the
\* time of the call, the cache entry the call found under its key and, once it is
\* there, the answer to the call's request
Invoke(c) ==
    LET r == calls[c]
        key == CallKey(r)
        b == GatewayBegin(r.kind, r.symbol, r.limit, r.exchange, CACHE, now)
        rec == [IdleCall(r) EXCEPT
                    !.st = "await", !.net = 1, !.startNow = now,
                    !.seen = IF key \in DOMAIN CACHE THEN Some(CACHE[key]) ELSE None]
    IN  /\ r.st # "await"
        /\ calls' = [calls EXCEPT ![c] =
              CASE b.tag = "return" ->
                      [rec EXCEPT !.st = "returned", !.net = 0, !.value = Some(b.value)]
                [] b.tag = "raise" ->
                      [rec EXCEPT !.st = "raised", !.net = 0, !.exc = b.exc]
                [] b.tag = "await" -> rec]
        /\ UNCHANGED <<now, CACHE, fetched, agg, comp, given, report>>

\* the response to a caller's request arrives and the call runs to its end
Deliver(c, resp) ==
    LET r == calls[c]
        e == GatewayEnd(r.kind, r.symbol, r.limit, r.exchange, resp, CACHE, now)
        key == CallKey(r)
    IN  /\ r.st = "await"
        /\ CACHE' = e.cache
        /\ IF e.tag = "return"
           THEN calls' = [calls EXCEPT ![c] =
                        [r EXCEPT !.st = "returned", !.value = Some(e.value),
                                  !.resp = Some(resp)]]
           ELSE calls' = [calls EXCEPT ![c] =
                        [r EXCEPT !.st = "raised", !.exc = e.exc, !.resp = Some(resp)]]
        /\ fetched' = Returned(fetched, key, e)
        /\ UNCHANGED <<now, agg, comp, given, report>>

\* time passes
Tick ==
    /\ now - StartTime < MaxTicks * TickLen
    /\ now' = now + TickLen
    /\ UNCHANGED <<CACHE, fetched, calls, agg, comp, given, report>>

\* the parts of the state an operation that is not running leaves as they are
NoCalls == [c \in Callers |-> [st |-> "none"]]
NoAgg == [pc |-> "idle"]
NoComp == [pc |-> "idle"]
NoInput == <<>>
NoReport == [kind |-> "none"]

Init ==
    /\ now = StartTime
    /\ CACHE = <<>>
    /\ fetched = <<>>
    /\ calls \in [Callers -> {IdleCall(q) : q \in Requests}]
    /\ agg = NoAgg
    /\ comp = NoComp
    /\ given = NoInput
    /\ report = NoReport

Next ==
    \/ Tick
    \/ \E c \in Callers : Invoke(c)
    \/ \E c \in Callers :
          /\ calls[c].st = "await"
          /\ \E resp \in Responses(calls[c].kind, calls[c].exchange, now) : Deliver(c, resp)

Spec == Init /\ [][Next]_vars

----------------------------------------------------------------------------
(* Claims about the gateway *)

\* the age, at the time of its call, of the entry a call found under its key
SeenAge(r) == r.startNow - r.seen.val.timestamp

\* C1: a get_price on a registered exchange that finds an entry less than 60 s old
\* under its key makes no network call and returns the PriceQuote the call that stored
\* the entry returned; one that finds no entry, or an entry 60 s old or older, makes one
\* network call.
C1_CacheWithinTtl ==
    /\ \A c \in Callers :
          LET r == calls[c]
          IN  (r.st # "idle" /\ r.kind = "price" /\ r.exchange \in {"binance", "okx", "bybit"}) =>
                 IF r.seen # None /\ SeenAge(r) < 60
                 THEN r.st = "returned" /\ r.net = 0 /\ r.value = Some(r.seen.val.data)
                 ELSE r.net = 1
    /\ \A k \in DOMAIN CACHE : k \in DOMAIN fetched /\ CACHE[k].data = fetched[k]

\* one get_price served from an entry stored earlier, and a later get_price of the same
\* key that found the entry expired and fetched again
C1_Witness ==
    \E c, d \in Callers :
        /\ calls[c].kind = "price" /\ calls[d].kind = "price"
        /\ CallKey(calls[c]) = CallKey(calls[d])
        /\ calls[c].st = "returned" /\ calls[c].net = 0
        /\ calls[c].seen # None /\ SeenAge(calls[c]) > 0
        /\ calls[d].st = "returned" /\ calls[d].net = 1
        /\ calls[d].seen # None /\ SeenAge(calls[d]) >= 60
        /\ calls[d].value # calls[c].value

----------------------------------------------------------------------------
(* exchange_api.py: get_aggregated_price *)

\* a get_price task of the gather: not started, waiting for its response, or ended
TaskOf(b) ==
    CASE b.tag = "return" -> [st |-> "returned", value |-> Some(b.value), exc |-> ""]
      [] b.tag = "raise"  -> [st |-> "raised", value |-> None, exc |-> b.exc]
      [] b.tag = "await"  -> [st |-> "await", value |-> None, exc |-> ""]

\* what gather(return_exceptions=True) puts in its list for an ended task
TaskResult(task) ==
    IF task.st = "raised"
    THEN [exception |-> TRUE, r |-> None]
    ELSE [exception |-> FALSE, r |-> task.value]

\* the gather's list with the results in the order the tasks ended
GatherResults_asCompleted(tasks, order) ==
    [i \in 1..Len(EXCHANGE_KEYS) |-> TaskResult(tasks[order[i]])]

\* results = await asyncio.gather(*tasks, return_exceptions=True): the results in the
\* order of the tasks, which is that of EXCHANGES.keys()
GatherResults(tasks, order) ==
    [i \in 1..Len(EXCHANGE_KEYS) |-> TaskResult(tasks[EXCHANGE_KEYS[i]])]

IsValid(r) == ~r.exception /\ r.r # None

RECURSIVE SumPrices(_)
SumPrices(rs) == IF rs = <<>> THEN 0 ELSE Head(rs).r.val.price + SumPrices(Tail(rs))

\* Aggregate that raises as soon as one exchange failed
Aggregate_strict(symbol, results, t) ==
    IF \E i \in 1..Len(results) : ~IsValid(results[i])
    THEN [tag |-> "raise", exc |-> "Exception"]
    ELSE [tag |-> "return",
          value |-> [symbol |-> symbol,
                     price |-> Quot(SumPrices(results), Num(Len(results))),
                     exchange_prices |->
                        [ex \in {EXCHANGE_KEYS[i] : i \in 1..Len(results)} |->
                            LET i == CHOOSE j \in 1..Len(results) : EXCHANGE_KEYS[j] = ex
                            IN  results[i].r.val.price],
                     timestamp |-> t]]

\* get_aggregated_price from the gather's results on, lines 267-280
Aggregate(symbol, results, t) ==
    LET valid_results == SelectSeq(results, IsValid)
    IN  IF valid_results = <<>>
        THEN [tag |-> "raise", exc |-> "Exception"]
        ELSE [tag |-> "return",
              value |-> [symbol |-> symbol,
                         price |-> Quot(SumPrices(valid_results), Num(Len(valid_results))),
                         exchange_prices |->
                            [ex \in {EXCHANGE_KEYS[i] : i \in {j \in 1..Len(results) : IsValid(results[j])}} |->
                                LET i == CHOOSE j \in 1..Len(results) : EXCHANGE_KEYS[j] = ex
                                IN  results[i].r.val.price],
                         timestamp |-> t]]

\* the gather ends once its three tasks have ended, and get_aggregated_price with it
AggSettle(a, t) ==
    IF \E ex \in DOMAIN a.tasks : a.tasks[ex].st = "await"
    THEN a
    ELSE LET e == Aggregate(a.symbol, GatherResults(a.tasks, a.order), t)
         IN  IF e.tag = "return"
             THEN [a EXCEPT !.pc = "returned", !.value = Some(e.value)]
             ELSE [a EXCEPT !.pc = "raised", !.exc = e.exc]

\* get_aggregated_price(symbol): one get_price task per exchange, each run to its first
\* suspension; order is the history of the tasks in the order they ended
AggCall(symbol) ==
    LET tasks == [ex \in {EXCHANGE_KEYS[i] : i \in 1..Len(EXCHANGE_KEYS)} |->
                     TaskOf(GatewayBegin("price", symbol, 0, ex, CACHE, now))]
        a == [pc |-> "gather", symbol |-> symbol, tasks |-> tasks,
              order |-> SelectSeq(EXCHANGE_KEYS, LAMBDA ex : tasks[ex].st # "await"),
              value |-> None, exc |-> ""]
    IN  /\ agg.pc # "gather"
        /\ agg' = AggSettle(a, now)
        /\ UNCHANGED <<now, CACHE, fetched, calls, comp, given, report>>

\* the response to the get_price task of exchange ex arrives
AggDeliver(ex, resp) ==
    LET e == GatewayEnd("price", agg.symbol, 0, ex, resp, CACHE, now)
        task == IF e.tag = "return"
                THEN [st |-> "returned", value |-> Some(e.value), exc |-> ""]
                ELSE [st |-> "raised", value |-> None, exc |-> e.exc]
    IN  /\ agg.pc = "gather"
        /\ agg.tasks[ex].st = "await"
        /\ CACHE' = e.cache
        /\ fetched' = Returned(fetched, price_key(agg.symbol, ex), e)
        /\ agg' = AggSettle([agg EXCEPT !.tasks[ex] = task, !.order = Append(@, ex)], now)
        /\ UNCHANGED <<now, calls, comp, given, report>>

InitAgg ==
    /\ now = StartTime
    /\ CACHE = <<>>
    /\ fetched = <<>>
    /\ calls = NoCalls
    /\ agg = NoAgg
    /\ comp = NoComp
    /\ given = NoInput
    /\ report = NoReport

NextAgg ==
    \/ Tick
    \/ \E symbol \in Symbols : AggCall(symbol)
    \/ \E ex \in DOMAIN EXCHANGES :
          /\ agg.pc = "gather"
          /\ \E resp \in Responses("price", ex, now) : AggDeliver(ex, resp)

SpecAgg == InitAgg /\ [][NextAgg]_vars

----------------------------------------------------------------------------
(* Claims about get_aggregated_price *)

AggEnded == agg.pc \in {"returned", "raised"}

\* the exchanges whose get_price returned a quote to the gather
Succeeded == {ex \in DOMAIN agg.tasks : agg.tasks[ex].st = "returned"}

QuotedPrice(ex) == agg.tasks[ex].value.val.price

RECURSIVE SumQuoted(_)
SumQuoted(S) ==
    IF S = {} THEN 0
    ELSE LET ex == CHOOSE x \in S : TRUE IN QuotedPrice(ex) + SumQuoted(S \ {ex})

\* C2: get_aggregated_price ends once its three get_price calls have ended; it returns a
\* result when at least one of them succeeded, whichever of the others failed, and
\* raises exactly when all three failed.
C2_AggregatedToleratesFailures ==
    /\ agg.pc = "gather" => \E ex \in DOMAIN agg.tasks : agg.tasks[ex].st = "await"
    /\ AggEnded =>
          /\ DOMAIN agg.tasks = {"binance", "okx", "bybit"}
          /\ \A ex \in DOMAIN agg.tasks : agg.tasks[ex].st \in {"returned", "raised"}
          /\ (Succeeded # {}) => (agg.pc = "returned" /\ agg.value # None)
          /\ (Succeeded = {}) => (agg.pc = "raised" /\ agg.value = None)

\* a result returned although two of the three exchanges failed
C2_Witness ==
    /\ agg.pc = "returned"
    /\ Cardinality(Succeeded) = 1
    /\ Cardinality({ex \in DOMAIN agg.tasks : agg.tasks[ex].st = "raised"}) = 2

\* C3: the price of a returned result is the arithmetic mean of the prices of exactly
\* the exchanges whose get_price succeeded, and exchange_prices maps exactly those
\* exchanges each to its own price, in whatever order the three calls ended.
C3_MeanOfSuccessful ==
    agg.pc = "returned" =>
        LET v == agg.value.val
        IN  /\ v.price.den > 0
            /\ v.price.num * Cardinality(Succeeded) = v.price.den * SumQuoted(Succeeded)
            /\ DOMAIN v.exchange_prices = Succeeded
            /\ \A ex \in Succeeded : v.exchange_prices[ex] = QuotedPrice(ex)

\* a result of two different prices and one failure whose calls ended in another order
\* than they were started
C3_Witness ==
    /\ agg.pc = "returned"
    /\ agg.order[1] = "bybit" /\ agg.order[3] = "binance"
    /\ Cardinality(Succeeded) = 2
    /\ \E ex, ey \in Succeeded : QuotedPrice(ex) # QuotedPrice(ey)

----------------------------------------------------------------------------
(* The analyzers applied to what the gateway can hand them *)

MaxTrades == 2

\* trades on the wire: quantity strings at the price of 1000 (values of 50000, 100000
\* and 150000), both raw sides, and ages in seconds on both sides of every window
TradeQtys == {"50", "100", "150"}
TradeAges == {600, 900, 1200, 7200, 18000, 90000}
RawTrades == TradeQtys \X BOOLEAN \X TradeAges

RawTradeLists(n) == UNION {[1..k -> RawTrades] : k \in 0..n}

\* the trade lists get_recent_trades can return at time t
TradeInputs(n, t) ==
    UNION {{ParseTrades(ex, TradesBody(ex, l, t)) : l \in RawTradeLists(n)} :
             ex \in DOMAIN EXCHANGES}

\* order books on the wire, with imbalances of 0, 10, 20 and 50 to either side, one
\* between 10 and 20, one of two levels, and the books that hold no volume
AnalysisDepthCases ==
    {<<<<>>, <<>>>>, <<<<"0">>, <<"0">>>>, <<<<"1">>, <<"1">>>>,
     <<<<"11">>, <<"9">>>>, <<<<"9">>, <<"11">>>>,
     <<<<"11">>, <<"8">>>>, <<<<"8">>, <<"11">>>>,
     <<<<"3">>, <<"2">>>>, <<<<"2">>, <<"3">>>>,
     <<<<"3">>, <<"1">>>>, <<<<"1">>, <<"3">>>>,
     <<<<"2", "1">>, <<"1">>>>}

BookInputs(symbol) ==
    UNION {{ParseOrderBook(symbol, ex, DepthBody(ex, c[1], c[2])) : c \in AnalysisDepthCases} :
             ex \in DOMAIN EXCHANGES}

QuoteInputs(symbol) ==
    {ParsePrice(symbol, "binance", TickerBody("binance", c)) : c \in TickerCases}

DefaultBook(symbol) == ParseOrderBook(symbol, "binance", DepthBody("binance", <<"3">>, <<"1">>))
DefaultQuote(symbol) ==
    ParsePrice(symbol, "binance", TickerBody("binance", <<"1000", "2.00", "0.02">>))

\* a trade list as exchange ex reports it, with one book and one quote
WideInput(symbol, ex, l, t) ==
    [trades |-> ParseTrades(ex, TradesBody(ex, l, t)),
     order_book |-> DefaultBook(symbol),
     price_data |-> DefaultQuote(symbol)]

\* every book and quote with the trade lists of at most one trade
DeepInputs(symbol, t) ==
    [trades : TradeInputs(1, t), order_book : BookInputs(symbol),
     price_data : QuoteInputs(symbol)]

\* a market of institutional 24h net flow +500000, retail 24h net flow -200000, whale
\* net value +300000 (one large sale is older than 24 hours) and imbalance +15
ExampleInput(symbol, t) ==
    [trades |-> ParseTrades("bybit", TradesBody("bybit",
                    <<<<"500", TRUE, 600>>, <<"200", FALSE, 90000>>, <<"80", FALSE, 600>>,
                      <<"80", FALSE, 7200>>, <<"40", FALSE, 18000>>>>, t)),
     order_book |-> ParseOrderBook(symbol, "bybit", DepthBody("bybit", <<"23">>, <<"17">>)),
     price_data |-> DefaultQuote(symbol)]

AnalysisSymbol == "BTC"

\* analyze_fund_flow, its trades and quote fetched
RunFundFlow ==
    /\ report = NoReport
    /\ report' = [kind |-> "fund_flow",
                  value |-> FundFlow(AnalysisSymbol, given.trades, given.price_data, now)]
    /\ UNCHANGED <<now, CACHE, fetched, calls, agg, comp, given>>

\* analyze_whale_activity, its trades fetched
RunWhaleActivity ==
    /\ report = NoReport
    /\ report' = [kind |-> "whale_activity",
                  value |-> WhaleActivity(AnalysisSymbol, given.trades, now)]
    /\ UNCHANGED <<now, CACHE, fetched, calls, agg, comp, given>>

\* analyze_order_book_imbalance, its book fetched
RunOrderBookImbalance ==
    /\ report = NoReport
    /\ report' = [kind |-> "order_book_imbalance",
                  value |-> OrderBookImbalance(AnalysisSymbol, given.order_book, now)]
    /\ UNCHANGED <<now, CACHE, fetched, calls, agg, comp, given>>

\* comprehensive_analysis, its four sub-tasks ended
RunComprehensive ==
    /\ report = NoReport
    /\ report' = [kind |-> "comprehensive",
                  value |-> Composite(AnalysisSymbol,
                                FundFlow(AnalysisSymbol, given.trades, given.price_data, now),
                                WhaleActivity(AnalysisSymbol, given.trades, now),
                                OrderBookImbalance(AnalysisSymbol, given.order_book, now),
                                given.price_data, now)]
    /\ UNCHANGED <<now, CACHE, fetched, calls, agg, comp, given>>

InitAnalysis ==
    /\ now = StartTime
    /\ CACHE = <<>>
    /\ fetched = <<>>
    /\ calls = NoCalls
    /\ agg = NoAgg
    /\ comp = NoComp
    /\ \/ \E ex \in DOMAIN EXCHANGES, k \in 0..MaxTrades :
             \E l \in [1..k -> RawTrades] : given = WideInput(AnalysisSymbol, ex, l, StartTime)
       \/ given \in DeepInputs(AnalysisSymbol, StartTime)
       \/ given = ExampleInput(AnalysisSymbol, StartTime)
    /\ report = NoReport

NextAnalysis ==
    \/ RunFundFlow
    \/ RunWhaleActivity
    \/ RunOrderBookImbalance
    \/ RunComprehensive

SpecAnalysis == InitAnalysis /\ [][NextAnalysis]_vars

----------------------------------------------------------------------------
(* comprehensive_analysis: four sub-tasks run concurrently under one gather.  A     *)
(* sub-task runs from one suspension to the next in one step; the requests of the   *)
(* sub-tasks are answered in any order.                                             *)

TaskNames == <<"fund_flow", "whale_activity", "order_book", "price">>

TaskAwait(stage, held) ==
    [st |-> "await", stage |-> stage, held |-> held, value |-> None, exc |-> ""]
TaskReturned(v) ==
    [st |-> "returned", stage |-> "", held |-> None, value |-> Some(v), exc |-> ""]
TaskRaised(exc) ==
    [st |-> "raised", stage |-> "", held |-> None, value |-> None, exc |-> exc]

\* analyze_fund_flow from the outcome o of its get_price on
FundFlowFromPrice(symbol, trades, o, t) ==
    CASE o.tag = "return" -> TaskReturned(FundFlow(symbol, trades, o.value, t))
      [] o.tag = "raise"  -> TaskRaised(o.exc)
      [] o.tag = "await"  -> TaskAwait("price", Some(trades))

\* analyze_fund_flow from the outcome o of its get_recent_trades on: the trades in
\* hand, get_price runs to its first suspension in the same step
FundFlowFromTrades(symbol, exchange, o, cache, t) ==
    CASE o.tag = "return" ->
            FundFlowFromPrice(symbol, o.value,
                              GatewayBegin("price", symbol, 0, exchange, cache, t), t)
      [] o.tag = "raise"  -> TaskRaised(o.exc)
      [] o.tag = "await"  -> TaskAwait("trades", None)

\* analyze_whale_activity from the outcome of its get_recent_trades on
WhaleFromTrades(symbol, o, t) ==
    CASE o.tag = "return" -> TaskReturned(WhaleActivity(symbol, o.value, t))
      [] o.tag = "raise"  -> TaskRaised(o.exc)
      [] o.tag = "await"  -> TaskAwait("trades", None)

\* analyze_order_book_imbalance from the outcome of its get_order_book on
ImbalanceFromBook(symbol, o, t) ==
    CASE o.tag = "return" -> TaskReturned(OrderBookImbalance(symbol, o.value, t))
      [] o.tag = "raise"  -> TaskRaised(o.exc)
      [] o.tag = "await"  -> TaskAwait("orderbook", None)

\* the get_price sub-task from the outcome of get_price on
PriceFromQuote(o) ==
    CASE o.tag = "return" -> TaskReturned(o.value)
      [] o.tag = "raise"  -> TaskRaised(o.exc)
      [] o.tag = "await"  -> TaskAwait("price", None)

\* the limit of the request a sub-task waits for at a stage
StageLimit(stage) ==
    CASE stage = "trades"    -> 1000
      [] stage = "orderbook" -> 20
      [] stage = "price"     -> 0

\* a sub-task from the outcome o of the gateway call it was suspended in
Resume(name, task, symbol, exchange, o, cache, t) ==
    CASE name = "fund_flow" /\ task.stage = "trades" ->
            FundFlowFromTrades(symbol, exchange, o, cache, t)
      [] name = "fund_flow" /\ task.stage = "price" ->
            FundFlowFromPrice(symbol, task.held.val, o, t)
      [] name = "whale_activity" -> WhaleFromTrades(symbol, o, t)
      [] name = "order_book" -> ImbalanceFromBook(symbol, o, t)
      [] name = "price" -> PriceFromQuote(o)

Raisers(tasks) == SelectSeq(TaskNames, LAMBDA name : tasks[name].st = "raised")

\* a gather that hands back what succeeded and lets the report be built from it
CompSettle_partial(c, t) ==
    IF c.pc # "gather" \/ \E name \in DOMAIN c.tasks : c.tasks[name].st = "await"
    THEN c
    ELSE [c EXCEPT !.pc = "returned",
                   !.value = Some([symbol |-> c.symbol,
                                   results |-> [name \in DOMAIN c.tasks |-> c.tasks[name].value]])]

\* await asyncio.gather(...) and the rest of comprehensive_analysis: the first
\* exception of a sub-task is raised at once, the other sub-tasks keep running; the
\* report is built when the four have returned
CompSettle(c, t) ==
    IF c.pc # "gather"
    THEN c
    ELSE IF Raisers(c.tasks) # <<>>
    THEN [c EXCEPT !.pc = "raised", !.exc = c.tasks[Head(Raisers(c.tasks))].exc]
    ELSE IF \A name \in DOMAIN c.tasks : c.tasks[name].st = "returned"
    THEN [c EXCEPT !.pc = "returned",
                   !.value = Some(Composite(c.symbol,
                                            c.tasks["fund_flow"].value.val,
                                            c.tasks["whale_activity"].value.val,
                                            c.tasks["order_book"].value.val,
                                            c.tasks["price"].value.val, t))]
    ELSE c

CompRunning ==
    comp.pc # "idle" /\ \E name \in DOMAIN comp.tasks : comp.tasks[name].st = "await"

\* comprehensive_analysis(symbol, exchange): the four sub-tasks run to their first
\* suspension in the order of the gather's arguments
CompCall(symbol, exchange) ==
    LET tasks ==
            [fund_flow |-> FundFlowFromTrades(symbol, exchange,
                               GatewayBegin("trades", symbol, 1000, exchange, CACHE, now),
                               CACHE, now),
             whale_activity |-> WhaleFromTrades(symbol,
                               GatewayBegin("trades", symbol, 1000, exchange, CACHE, now), now),
             order_book |-> ImbalanceFromBook(symbol,
                               GatewayBegin("orderbook", symbol, 20, exchange, CACHE, now), now),
             price |-> PriceFromQuote(GatewayBegin("price", symbol, 0, exchange, CACHE, now))]
        c == [pc |-> "gather", symbol |-> symbol, exchange |-> exchange, tasks |-> tasks,
              value |-> None, exc |-> ""]
    IN  /\ ~CompRunning
        /\ comp' = CompSettle(c, now)
        /\ UNCHANGED <<now, CACHE, fetched, calls, agg, given, report>>

\* the response to the request of a suspended sub-task arrives
CompDeliver(name, resp) ==
    LET task == comp.tasks[name]
        limit == StageLimit(task.stage)
        e == GatewayEnd(task.stage, comp.symbol, limit, comp.exchange, resp, CACHE, now)
    IN  /\ CACHE' = e.cache
        /\ fetched' = Returned(fetched, cache_key(task.stage, comp.symbol, limit, comp.exchange), e)
        /\ comp' = CompSettle([comp EXCEPT !.tasks[name] =
                        Resume(name, task, comp.symbol, comp.exchange, e, e.cache, now)], now)
        /\ UNCHANGED <<now, calls, agg, given, report>>

InitComp ==
    /\ now = StartTime
    /\ CACHE = <<>>
    /\ fetched = <<>>
    /\ calls = NoCalls
    /\ agg = NoAgg
    /\ comp = NoComp
    /\ given = NoInput
    /\ report = NoReport

NextComp ==
    \/ Tick
    \/ \E symbol \in Symbols, exchange \in ExchangeIds :
          \* the caller stays with the exchange of its first call
          /\ comp.pc # "idle" => exchange = comp.exchange
          /\ CompCall(symbol, exchange)
    \/ \E name \in {TaskNames[i] : i \in 1..Len(TaskNames)} :
          /\ comp.pc # "idle"
          /\ comp.tasks[name].st = "await"
          /\ \E resp \in Responses(comp.tasks[name].stage, comp.exchange, now) :
                CompDeliver(name, resp)

SpecComp == InitComp /\ [][NextComp]_vars

----------------------------------------------------------------------------
(* Claims about comprehensive_analysis *)

CompTasks(st) == {name \in DOMAIN comp.tasks : comp.tasks[name].st = st}

\* C4: comprehensive_analysis returns a report only when its four sub-tasks
\* (analyze_fund_flow, analyze_whale_activity, analyze_order_book_imbalance, get_price)
\* have all succeeded; when any one of them fails the operation raises and hands back
\* no report, not even a partial one.
C4_AllOrNothing ==
    comp.pc # "idle" =>
        /\ (comp.pc = "raised") <=> (CompTasks("raised") # {})
        /\ (comp.pc = "returned") <=> (CompTasks("returned") = DOMAIN comp.tasks)
        /\ (comp.pc = "returned") <=> (comp.value # None)
        /\ comp.pc = "returned" =>
              /\ comp.value.val.fund_flow = comp.tasks["fund_flow"].value.val
              /\ comp.value.val.whale_activity = comp.tasks["whale_activity"].value.val
              /\ comp.value.val.order_book_imbalance = comp.tasks["order_book"].value.val
              /\ comp.value.val.price = comp.tasks["price"].value.val.price

\* three sub-tasks succeeded and the get_price sub-task failed: raised, no report
C4_Witness ==
    /\ comp.pc = "raised"
    /\ CompTasks("raised") = {"price"}
    /\ CompTasks("returned") = {"fund_flow", "whale_activity", "order_book"}
    /\ comp.value = None

\* the four sub-tasks succeeded: a report
C4_WitnessReport ==
    /\ comp.pc = "returned"
    /\ CompTasks("returned") = DOMAIN comp.tasks
    /\ comp.value # None

----------------------------------------------------------------------------
(* Claims about the analyzers.  The numbers are those of the claims: 100000 is  *)
(* carried as 100000 * 100 hundredths, a percentage p as p * 100.               *)

IsFlowReport == report.kind = "fund_flow"
IsWhaleReport == report.kind = "whale_activity"
IsComposite == report.kind = "comprehensive"

\* the age of a trade in milliseconds when the analyzer ran
AgeMs(trade) == now * 1000 - trade.timestamp

\* the sum of the values of the trades of a list at the positions of a set
RECURSIVE SumAt(_, _)
SumAt(trades, positions) ==
    IF positions = {} THEN 0
    ELSE LET i == CHOOSE j \in positions : TRUE
         IN  trades[i].value + SumAt(trades, positions \ {i})

WindowMs(period) ==
    CASE period = "15m" -> 900000
      [] period = "1h"  -> 3600000
      [] period = "4h"  -> 14400000
      [] period = "24h" -> 86400000

ClassOf(trade) == IF trade.value >= 100000 * 100 THEN "institutional" ELSE "retail"

\* C5: bullish_signals and bearish_signals of a CompositeReport are the weighted sums
\* of the four signals: institutional 24h net flow (2, by its sign), retail 24h net flow
\* (1, against its sign), whale net value (2, by its sign), order-book imbalance (1,
\* bullish above 10, bearish below -10); zero flows and an imbalance in [-10, 10] add
\* nothing.  Flows of +500000, -200000, whale +300000 and imbalance +15 give 6 and 0.
C5_SignalWeights ==
    IsComposite =>
        LET v == report.value
            inst == v.fund_flow.institutional["24h"].net_flow
            retail == v.fund_flow.retail["24h"].net_flow
            whale == v.whale_activity.net_value
            imb == v.order_book_imbalance.imbalance
        IN  /\ v.bullish_signals =
                  (IF inst > 0 THEN 2 ELSE 0) + (IF retail < 0 THEN 1 ELSE 0)
                  + (IF whale > 0 THEN 2 ELSE 0) + (IF imb.num > 1000 * imb.den THEN 1 ELSE 0)
            /\ v.bearish_signals =
                  (IF inst < 0 THEN 2 ELSE 0) + (IF retail > 0 THEN 1 ELSE 0)
                  + (IF whale < 0 THEN 2 ELSE 0) + (IF imb.num < -1000 * imb.den THEN 1 ELSE 0)
            /\ (inst = 500000 * 100 /\ retail = -200000 * 100 /\ whale = 300000 * 100
                /\ imb = [num |-> 1500, den |-> 1])
                  => (v.bullish_signals = 6 /\ v.bearish_signals = 0)

\* the report of the example market
C5_Witness ==
    /\ IsComposite
    /\ report.value.fund_flow.institutional["24h"].net_flow = 500000 * 100
    /\ report.value.fund_flow.retail["24h"].net_flow = -200000 * 100
    /\ report.value.whale_activity.net_value = 300000 * 100
    /\ report.value.order_book_imbalance.imbalance = [num |-> 1500, den |-> 1]
    /\ report.value.bullish_signals = 6
    /\ report.value.bearish_signals = 0

PredictionLabels == {"strong bullish", "bullish", "strong bearish", "bearish", "neutral"}

\* C6: market_prediction of a CompositeReport is decided by d = bullish_signals -
\* bearish_signals alone: strong bullish for d >= 3, bullish for 1 <= d <= 2, strong
\* bearish for d <= -3, bearish for -2 <= d <= -1, neutral for d = 0.
C6_PredictionFromDifference ==
    IsComposite =>
        LET d == report.value.bullish_signals - report.value.bearish_signals
            label == report.value.market_prediction
        IN  /\ label \in PredictionLabels
            /\ (label = "strong bullish") <=> (d >= 3)
            /\ (label = "bullish") <=> (1 <= d /\ d <= 2)
            /\ (label = "strong bearish") <=> (d <= -3)
            /\ (label = "bearish") <=> (-2 <= d /\ d <= -1)
            /\ (label = "neutral") <=> (d = 0)

\* a report at the edge of the strong label: a difference of exactly 3
C6_Witness ==
    /\ IsComposite
    /\ report.value.bullish_signals - report.value.bearish_signals = 3
    /\ report.value.market_prediction = "strong bullish"

\* C7: in a FlowReport the inflow (outflow) of a class and window is the sum of the
\* values of the buy (other) trades of that class made at or after the start of the
\* window: a trade counts in every window it falls in and in no other, in one class
\* (institutional from a value of 100000) and on one side.
C7_TrailingWindows ==
    IsFlowReport =>
        \A c \in {"institutional", "retail"}, period \in {"15m", "1h", "4h", "24h"} :
            LET In == {i \in 1..Len(given.trades) :
                          /\ ClassOf(given.trades[i]) = c
                          /\ AgeMs(given.trades[i]) <= WindowMs(period)}
                Bought == {i \in In : given.trades[i].side = "buy"}
                Sold == {i \in In : given.trades[i].side # "buy"}
            IN  /\ report.value[c][period].inflow = SumAt(given.trades, Bought)
                /\ report.value[c][period].outflow = SumAt(given.trades, Sold)

\* a 20-minute-old large purchase, counted in 1h, 4h and 24h but not in 15m, beside a
\* trade older than 24 hours, counted nowhere
C7_Witness ==
    /\ IsFlowReport
    /\ Len(given.trades) = 2
    /\ AgeMs(given.trades[1]) = 1200000 /\ given.trades[1].side = "buy"
    /\ given.trades[1].value = 150000 * 100
    /\ AgeMs(given.trades[2]) > 86400000
    /\ report.value.institutional["15m"].inflow = 0
    /\ \A period \in {"1h", "4h", "24h"} :
          report.value.institutional[period].inflow = 150000 * 100
    /\ \A c \in {"institutional", "retail"}, period \in {"15m", "1h", "4h", "24h"} :
          report.value[c][period].outflow = 0

\* C8: in a FlowReport net_flow is inflow - outflow for each class and window, all
\* three being 0 for the empty trade list.
C8_NetFlow ==
    IsFlowReport =>
        \A c \in {"institutional", "retail"}, period \in {"15m", "1h", "4h", "24h"} :
            LET f == report.value[c][period]
            IN  /\ f.net_flow = f.inflow - f.outflow
                /\ given.trades = <<>> => (f.inflow = 0 /\ f.outflow = 0 /\ f.net_flow = 0)

\* purchases and sales in one bucket, with a negative net flow
C8_Witness ==
    /\ IsFlowReport
    /\ report.value.institutional["24h"].inflow = 100000 * 100
    /\ report.value.institutional["24h"].outflow = 150000 * 100
    /\ report.value.institutional["24h"].net_flow = -50000 * 100

Sign(x) == IF x > 0 THEN 1 ELSE IF x < 0 THEN -1 ELSE 0

\* C9: dominant_direction of a FlowReport is the fixed lookup of the signs of the 24h
\* institutional and retail net flows, whatever the flows of the shorter windows.
C9_DominantDirection ==
    IsFlowReport =>
        LET i == Sign(report.value.institutional["24h"].net_flow)
            r == Sign(report.value.retail["24h"].net_flow)
            label == report.value.dominant_direction
        IN  /\ (i = 1 /\ r = 1) => label = "strong bullish"
            /\ (i = 1 /\ r = -1) => label = "institutional bullish, retail bearish"
            /\ (i = -1 /\ r = 1) => label = "institutional bearish, retail bullish"
            /\ (i = -1 /\ r = -1) => label = "strong bearish"
            /\ (i = 0 \/ r = 0) => label = "neutral"

\* a label from the 24h flows where the 1h flows have other signs
C9_Witness ==
    /\ IsFlowReport
    /\ report.value.institutional["24h"].net_flow > 0
    /\ report.value.retail["24h"].net_flow < 0
    /\ report.value.institutional["1h"].net_flow = 0
    /\ report.value.retail["1h"].net_flow < 0
    /\ report.value.dominant_direction = "institutional bullish, retail bearish"

\* the number of trades of a list with a value of at least 100000
RECURSIVE CountLarge(_)
CountLarge(trades) ==
    IF trades = <<>> THEN 0
    ELSE (IF Head(trades).value >= 100000 * 100 THEN 1 ELSE 0) + CountLarge(Tail(trades))

\* C10: large_trade_percentage of a WhaleReport is a number for every trade list: 0 for
\* the empty list, else 100 * (trades of value >= 100000) / (trades), within [0, 100].
C10_LargeTradePercentage ==
    IsWhaleReport =>
        LET p == report.value.large_trade_percentage
            n == Len(given.trades)
            k == CountLarge(given.trades)
        IN  /\ p.den > 0
            /\ n = 0 => p.num = 0
            /\ n > 0 => p.num * n = 100 * k * 100 * p.den
            /\ 0 <= p.num /\ p.num <= 100 * 100 * p.den

\* the report of no trade, with a percentage of 0
C10_Witness ==
    /\ IsWhaleReport
    /\ given.trades = <<>>
    /\ report.value.large_trade_percentage = [num |-> 0, den |-> 1]

\* the report of one large trade among two, with a percentage of 50
C10_WitnessHalf ==
    /\ IsWhaleReport
    /\ Len(given.trades) = 2
    /\ report.value.large_trade_percentage = [num |-> 5000, den |-> 1]

IsImbalanceReport == report.kind = "order_book_imbalance"

\* the sum of the quantities of the levels of one side of a book
RECURSIVE QtyAt(_, _)
QtyAt(levels, positions) ==
    IF positions = {} THEN 0
    ELSE LET i == CHOOSE j \in positions : TRUE
         IN  levels[i][2] + QtyAt(levels, positions \ {i})

BookVolume(book) ==
    QtyAt(book.bids, DOMAIN book.bids) + QtyAt(book.asks, DOMAIN book.asks)

C11_WitnessSplit ==
    /\ IsImbalanceReport
    /\ BookVolume(given.order_book) # 0
    /\ report.value.bid_percentage = [num |-> 7500, den |-> 1]
    /\ report.value.ask_percentage = [num |-> 2500, den |-> 1]
    /\ report.value.imbalance = [num |-> 5000, den |-> 1]

\* C12: the pressure label of an ImbalanceReport is decided by the imbalance alone:
\* strong buy pressure above 20, buy pressure above 10 up to 20, strong sell pressure
\* below -20, sell pressure from -20 to below -10, balanced from -10 to 10, the two
\* ends included.
C12_PressureThresholds ==
    IsImbalanceReport =>
        LET imb == report.value.imbalance
            label == report.value.pressure
            Above(n) == imb.num > n * 100 * imb.den
            Below(n) == imb.num < n * 100 * imb.den
        IN  /\ imb.den > 0
            /\ (label = "strong buy pressure") <=> Above(20)
            /\ (label = "buy pressure") <=> (Above(10) /\ ~Above(20))
            /\ (label = "strong sell pressure") <=> Below(-20)
            /\ (label = "sell pressure") <=> (Below(-10) /\ ~Below(-20))
            /\ (label = "balanced") <=> (~Above(10) /\ ~Below(-10))

\* an imbalance of exactly 20: buy pressure, not yet strong
C12_Witness ==
    /\ IsImbalanceReport
    /\ report.value.imbalance = [num |-> 2000, den |-> 1]
    /\ report.value.pressure = "buy pressure"

----------------------------------------------------------------------------
(* Claims about the normalization of the payloads and the failures of the gateway *)

\* the calls that fetched: their request was answered
Fetched(c) == calls[c].st \in {"returned", "raised"} /\ calls[c].resp # None

\* the trades of a recent-trades payload, as the exchange lists them
WireTrades(exchange, body) ==
    CASE exchange = "binance" -> body
      [] exchange = "okx"     -> body.data
      [] exchange = "bybit"   -> body.result.list

\* the taker of a trade on the wire bought
TakerBought(exchange, trade) ==
    CASE exchange = "binance" -> trade.isBuyerMaker = FALSE
      [] exchange = "okx"     -> trade.side = "buy"
      [] exchange = "bybit"   -> trade.S = "Buy"

\* C13: the side of every Trade that get_recent_trades returns is the side of the
\* taker: "buy" for a trade whose taker bought (Binance isBuyerMaker = false, OKX side =
\* "buy", Bybit S = "Buy"), "sell" otherwise, on each of the three exchanges.
C13_TakerSide ==
    \A c \in Callers :
        LET r == calls[c]
        IN  (Fetched(c) /\ r.kind = "trades" /\ r.st = "returned") =>
                LET wire == WireTrades(r.exchange, r.resp.val.json)
                IN  \A i \in 1..Len(wire) :
                        r.value.val[i].side =
                            IF TakerBought(r.exchange, wire[i]) THEN "buy" ELSE "sell"

HttpFailed(resp) == IF resp.raised THEN TRUE ELSE resp.status # 200

\* C15: when get_price, get_order_book or get_recent_trades missed the cache and its
\* network call fails (transport error or a status other than 200), the call raises
\* after that one network call and leaves the cache as it is: no entry added, an expired
\* entry under the key neither removed nor refreshed.
C15_FailureLeavesCache ==
    [][\A c \in Callers :
          (calls[c].st = "await" /\ calls'[c] # calls[c] /\ HttpFailed(calls'[c].resp.val)) =>
              /\ calls'[c].st = "raised"
              /\ calls'[c].exc = "Exception"
              /\ calls'[c].net = 1
              /\ CACHE' = CACHE]_vars

\* a call that found an expired entry under its key, fetched and failed: the entry is
\* still there, as it was
C15_Witness ==
    \E c \in Callers :
        LET r == calls[c]
        IN  /\ r.st = "raised" /\ r.net = 1
            /\ r.resp # None /\ HttpFailed(r.resp.val)
            /\ r.seen # None
            /\ r.startNow - r.seen.val.timestamp >= 60
            /\ CallKey(r) \in DOMAIN CACHE
            /\ CACHE[CallKey(r)] = r.seen.val

\* the 24h change of a ticker payload in hundredths of a percent: Binance's
\* priceChangePercent is a percentage, OKX's change24h and Bybit's price24hPcnt are
\* fractions of one ("2.00" is 200 hundredths, "0.02" is 2 hundredths of one)
WirePercent(exchange, body) ==
    CASE exchange = "binance" -> float(body.priceChangePercent)
      [] exchange = "okx"     -> 100 * float(body.data[1].change24h)
      [] exchange = "bybit"   -> 100 * float(body.result.list[1].price24hPcnt)

\* C16: change_24h of a PriceQuote of get_price is the 24h change in percent, with the
\* sign of the source field: Binance's priceChangePercent as it is, OKX's change24h and
\* Bybit's price24hPcnt times 100; a change of 2 percent is 2 on each exchange.
C16_ChangeInPercent ==
    \A c \in Callers :
        LET r == calls[c]
        IN  (Fetched(c) /\ r.kind = "price" /\ r.st = "returned") =>
                /\ r.value.val.change_24h = WirePercent(r.exchange, r.resp.val.json)
                /\ \E tc \in TickerCases :
                      /\ r.resp.val.json = TickerBody(r.exchange, tc)
                      /\ r.value.val.change_24h = float(tc[2])

\* an OKX quote of a ticker whose change24h is -0.01: minus one percent
C16_Witness ==
    \E c \in Callers :
        /\ Fetched(c) /\ calls[c].kind = "price" /\ calls[c].st = "returned"
        /\ calls[c].exchange = "okx"
        /\ calls[c].resp.val.json.data[1].change24h = "-0.01"
        /\ calls[c].value.val.change_24h = -100

\* C17: a call that missed the cache on a registered exchange and whose request is
\* answered with a 200 and a payload of the expected shape stores the normalized result
\* under its key and returns it, also when the payload is a recent-trades payload of no
\* trade (the result is then the empty list); it fails only on a failed request.
C17_SuccessStoresAndReturns ==
    \A c \in Callers :
        LET r == calls[c]
        IN  (Fetched(c) /\ ~HttpFailed(r.resp.val)) =>
                /\ r.st = "returned"
                /\ r.value = Some(Parse(r.kind, r.symbol, r.exchange, r.resp.val.json))
                /\ CallKey(r) \in DOMAIN CACHE
                /\ (r.kind = "trades" /\ WireTrades(r.exchange, r.resp.val.json) = <<>>)
                      => r.value = Some(<<>>)

----------------------------------------------------------------------------
(* Claims about the concurrency of comprehensive_analysis and of the cache *)

\* C18: comprehensive_analysis completes, returning or raising, only after its four
\* sub-tasks have completed: never while a sub-task has a request in flight, also when
\* another sub-task has failed.
C18_CompletesAfterAll ==
    comp.pc \in {"returned", "raised"} => CompTasks("await") = {}

\* C19: two requests for one cache key whose entry is missing or expired can both miss
\* and both fetch; each caller is handed the result of its own fetch, and each store
\* replaces the entry of the key, data and timestamp together, and touches no other
\* key: once both have completed the entry is that of the request that stored last.
C19_LastWriterWins ==
    [][\A c \in Callers :
          (calls[c].st = "await" /\ calls'[c].st = "returned") =>
              LET r == calls'[c]
                  key == CallKey(r)
              IN  /\ r.net = 1
                  /\ r.value = Some(Parse(r.kind, r.symbol, r.exchange, r.resp.val.json))
                  /\ DOMAIN CACHE' = DOMAIN CACHE \cup {key}
                  /\ CACHE'[key] = [timestamp |-> now, data |-> r.value.val]
                  /\ \A k \in DOMAIN CACHE \ {key} : CACHE'[k] = CACHE[k]]_vars

\* two callers of one key both missed and both fetched, with different results: each
\* holds its own, and the entry is the one of the second to store
C19_Witness ==
    /\ CallKey(calls["c1"]) = CallKey(calls["c2"])
    /\ \A c \in Callers :
          /\ calls[c].st = "returned" /\ calls[c].net = 1 /\ calls[c].seen = None
          /\ calls[c].startNow = StartTime
    /\ calls["c1"].value # calls["c2"].value
    /\ now > StartTime
    /\ CACHE[CallKey(calls["c2"])] = [timestamp |-> now, data |-> calls["c2"].value.val]

\* C20: in every CompositeReport the top-level price equals the current_price of the
\* embedded FlowReport, whatever the cache held at the call and however the four
\* sub-tasks interleave.
C20_PriceAgreesWithFlow ==
    comp.pc = "returned" =>
        comp.value.val.price = comp.value.val.fund_flow.current_price

----------------------------------------------------------------------------
(* Claims that relate the reports of one trade list *)

\* the positions of the trades of a list with a value of at least 100000
LargeAt(trades) == {i \in 1..Len(trades) : trades[i].value >= 100000 * 100}

\* the positions of the trades of a list made more than 24 hours ago
OlderThanDay(trades) == {i \in 1..Len(trades) : AgeMs(trades[i]) > 86400000}

C21_WitnessOld ==
    /\ IsComposite
    /\ \E i \in LargeAt(given.trades) \cap OlderThanDay(given.trades) :
          /\ given.trades[i].side = "sell"
          /\ report.value.whale_activity.sell_value = given.trades[i].value
    /\ report.value.whale_activity.sell_value > 0
    /\ \A period \in {"15m", "1h", "4h", "24h"} :
          report.value.fund_flow.institutional[period].outflow = 0
    /\ report.value.whale_activity.net_value < report.value.fund_flow.institutional["24h"].net_flow

====
